---- MODULE Spec2Model ----
(***************************************************************************)
(* Lung cancer survival analysis notebook (01_analysis.py).                *)
(*                                                                         *)
(* The notebook loads three csv files into delta tables on a three-worker  *)
(* thread pool, defines three temp views over them in SQL, materialises    *)
(* the last view in pandas and hands (time, status) to a Kaplan-Meier      *)
(* fitter.  Temp views are stored queries: they are modelled as operators  *)
(* over the table store, evaluated whenever a cell reads them.             *)
(*                                                                         *)
(* SQL values are nullable: NULL is the empty tuple, a value v is <<v>>.   *)
(* A csv date cell is the tuple <<y, m, d>> of its text (the time of day   *)
(* of a timestamp is left out); to_date turns it into a DATE, which Spark  *)
(* holds as the number of days since 1970-01-01.  No cell of the notebook  *)
(* catches an exception, and none is modelled.                             *)
(***************************************************************************)
EXTENDS Integers, Sequences, FiniteSets, TLC

VARIABLES
    files,        \* the csv files under source_data_path, by dataset name
    db,           \* TRUE once the database exists and is in use
    catalog,      \* names of the delta tables that exist
    tables,       \* rows of each delta table
    task,         \* state of each load_folder_as_table call in the pool
    drained,      \* results of executor.map consumed by deque so far
    table_counts, \* the (dataset, n_records) list of the count cell
    views,        \* names of the temp views defined in the session
    silver,       \* rows saved under silver/lung-cancer-patients-dataset
    data_pdf,     \* pandas copy of lung_cancer_survival_data
    kmf,          \* the (T, E) pair handed to kmf.fit
    pc            \* the cell the notebook is about to run

vars == <<files, db, catalog, tables, task, drained, table_counts, views,
          silver, data_pdf, kmf, pc>>

-----------------------------------------------------------------------------
(* Bounds of the model *)

\* rows in the three csv files together (multi-row input family)
MaxRows == 4

-----------------------------------------------------------------------------
(* Constants of the notebook *)

SCLC_CODE == 254632001
NSCLC_CODE == 254637007
AGE_DIVISOR == 356
max_workers == 3

datasets == <<"patients", "conditions", "encounters">>

DatasetNames == {datasets[i] : i \in 1..Len(datasets)}

-----------------------------------------------------------------------------
(* SQL values and the built-in functions the queries use *)

Null == <<>>

IsNull(v) == v = Null

\* a = b in a join or filter condition: never true when either side is NULL
SqlEq(a, b) == ~IsNull(a) /\ ~IsNull(b) /\ a = b

IsLeap(y) == (y % 4 = 0 /\ y % 100 # 0) \/ y % 400 = 0

DaysInMonth(y, m) ==
    IF m = 2 THEN (IF IsLeap(y) THEN 29 ELSE 28)
    ELSE IF m \in {4, 6, 9, 11} THEN 30 ELSE 31

\* a cell holds a calendar date
ValidCell(c) ==
    /\ Len(c) = 3
    /\ c[2] \in 1..12
    /\ c[3] \in 1..DaysInMonth(c[1], c[2])

\* days from 1970-01-01 to y-m-d in the proleptic Gregorian calendar
EpochDay(y, m, d) ==
    LET yy  == IF m <= 2 THEN y - 1 ELSE y
        era == yy \div 400
        yoe == yy - era * 400
        mp  == (m + 9) % 12
        doy == ((153 * mp + 2) \div 5) + d - 1
        doe == yoe * 365 + (yoe \div 4) - (yoe \div 100) + doy
    IN  era * 146097 + doe - 719468

\* to_date(cell): NULL for an empty cell or text that is no date
to_date(c) ==
    IF IsNull(c) \/ ~ValidCell(c) THEN Null ELSE <<EpochDay(c[1], c[2], c[3])>>

\* datediff(endDate, startDate): days from startDate to endDate, NULL if either is
datediff(e, s) ==
    IF IsNull(e) \/ IsNull(s) THEN Null ELSE <<e[1] - s[1]>>

\* round(n / q) on doubles: to the nearest integer, halves away from zero
RoundDiv(n, q) ==
    IF n >= 0 THEN (2 * n + q) \div (2 * q)
    ELSE -((2 * (-n) + q) \div (2 * q))

\* round(x / 356) for a nullable integer x
round_div(x, q) == IF IsNull(x) THEN Null ELSE <<RoundDiv(x[1], q)>>

\* (variant: min() in place of max())
sql_min(vs) ==
    LET ds == {v \in vs : ~IsNull(v)}
    IN  IF ds = {} THEN Null
        ELSE CHOOSE v \in ds : \A w \in ds : v[1] <= w[1]

\* max() of a group of nullable dates: NULLs are skipped, NULL if none is left
sql_max(vs) ==
    LET ds == {v \in vs : ~IsNull(v)}
    IN  IF ds = {} THEN Null
        ELSE CHOOSE v \in ds : \A w \in ds : w[1] <= v[1]

\* the pairs <<i, j>> of row numbers of two row lists of nl and nr rows, in order
CrossPairs(nl, nr) ==
    [k \in 1..(nl * nr) |-> <<((k - 1) \div nr) + 1, ((k - 1) % nr) + 1>>]

-----------------------------------------------------------------------------
(* The SQL of the notebook.  t is the table store: t[d] is the row list of  *)
(* table d.  Row order stands for nothing; it only lets rows be counted.   *)

\* (variant: the where clause lets every coded record through)
CodeMatchesAnyCode(code) == ~IsNull(code)

\* where code in (254632001,254637007)
CodeMatches(code) == SqlEq(code, <<SCLC_CODE>>) \/ SqlEq(code, <<NSCLC_CODE>>)

\* CASE WHEN CODE==254632001 THEN 'SCLC' ELSE 'NSCLC' END
CohortType(code) == IF SqlEq(code, <<SCLC_CODE>>) THEN "SCLC" ELSE "NSCLC"

CohortRow(r) ==
    [PATIENT    |-> r.PATIENT,
     START_DATE |-> to_date(r.START),
     type       |-> CohortType(r.CODE)]

\* CREATE OR REPLACE TEMP VIEW lung_cancer_cohort
lung_cancer_cohort(t) ==
    LET sel == SelectSeq(t["conditions"], LAMBDA r : CodeMatches(r.CODE))
    IN  [k \in 1..Len(sel) |-> CohortRow(sel[k])]

\* max(to_date(STOP)) over the encounters of one PATIENT group
GroupMax(enc, patient) ==
    sql_max({to_date(enc[j].STOP) : j \in {k \in 1..Len(enc) : enc[k].PATIENT = patient}})

\* (variant: no group by, one row for each encounter)
last_date_per_encounter(t) ==
    LET enc == t["encounters"]
    IN  [k \in 1..Len(enc) |->
            [PATIENT             |-> enc[k].PATIENT,
             last_date_on_record |-> to_date(enc[k].STOP)]]

\* select PATIENT, max(to_date(STOP)) from encounters group by PATIENT:
\* one row for each PATIENT value that occurs, NULL being a value like any other
last_date_on_record(t) ==
    LET enc   == t["encounters"]
        idx   == [i \in 1..Len(enc) |-> i]
        first == SelectSeq(idx, LAMBDA i : \A j \in 1..(i - 1) : enc[j].PATIENT # enc[i].PATIENT)
    IN  [k \in 1..Len(first) |->
            [PATIENT             |-> enc[first[k]].PATIENT,
             last_date_on_record |-> GroupMax(enc, enc[first[k]].PATIENT)]]

\* on ld.PATIENT == patients.Id
OnPatient(p, ld) == SqlEq(ld.PATIENT, p.Id)

PatientsAndDatesRow(p, ld) ==
    [Id                  |-> p.Id,
     BIRTHDATE           |-> to_date(p.BIRTHDATE),
     death_date          |-> to_date(p.DEATHDATE),
     GENDER              |-> p.GENDER,
     last_date_on_record |-> ld.last_date_on_record]

\* patients join last_date_on_record
patients_and_dates(t) ==
    LET p   == t["patients"]
        ld  == last_date_on_record(t)
        sel == SelectSeq(CrossPairs(Len(p), Len(ld)),
                         LAMBDA ij : OnPatient(p[ij[1]], ld[ij[2]]))
    IN  [k \in 1..Len(sel) |-> PatientsAndDatesRow(p[sel[k][1]], ld[sel[k][2]])]

\* (variant: the divisor is the length of a calendar year)
age_in_calendar_years(start_date, birthdate) ==
    round_div(datediff(start_date, birthdate), 365)

\* round(datediff(START_DATE,BIRTHDATE)/356)
age_at_diagnosis(start_date, birthdate) ==
    round_div(datediff(start_date, birthdate), AGE_DIVISOR)

\* on lcc.PATIENT= pad.Id
OnCohort(lcc, pad) == SqlEq(lcc.PATIENT, pad.Id)

PatientsDatasetRow(lcc, pad) ==
    [PATIENT             |-> lcc.PATIENT,
     START_DATE          |-> lcc.START_DATE,
     type                |-> lcc.type,
     Id                  |-> pad.Id,
     BIRTHDATE           |-> pad.BIRTHDATE,
     death_date          |-> pad.death_date,
     GENDER              |-> pad.GENDER,
     last_date_on_record |-> pad.last_date_on_record,
     age_at_diagnosis    |-> age_at_diagnosis(lcc.START_DATE, pad.BIRTHDATE)]

\* CREATE or REPLACE TEMP VIEW lung_cancer_patients_dataset
lung_cancer_patients_dataset(t) ==
    LET lcc == lung_cancer_cohort(t)
        pad == patients_and_dates(t)
        sel == SelectSeq(CrossPairs(Len(lcc), Len(pad)),
                         LAMBDA ij : OnCohort(lcc[ij[1]], pad[ij[2]]))
    IN  [k \in 1..Len(sel) |-> PatientsDatasetRow(lcc[sel[k][1]], pad[sel[k][2]])]

\* CASE WHEN death_date is null THEN 0 ELSE 1 END
SurvivalStatus(death_date) == IF IsNull(death_date) THEN 0 ELSE 1

\* (variant: the last encounter is used whenever there is one)
SurvivalTimeLastEncounterFirst(death_date, last_date, start_date) ==
    IF IsNull(last_date) THEN datediff(death_date, start_date)
    ELSE datediff(last_date, start_date)

\* (variant: a negative difference is clamped to zero)
SurvivalTimeClamped(death_date, last_date, start_date) ==
    LET dd == IF IsNull(death_date) THEN datediff(last_date, start_date)
              ELSE datediff(death_date, start_date)
    IN  IF ~IsNull(dd) /\ dd[1] < 0 THEN <<0>> ELSE dd

\* CASE WHEN death_date is null THEN datediff(last_date_on_record,START_DATE)
\*      ELSE datediff(death_date,START_DATE) END
SurvivalTime(death_date, last_date, start_date) ==
    IF IsNull(death_date) THEN datediff(last_date, start_date)
    ELSE datediff(death_date, start_date)

SurvivalRow(r) ==
    [START_DATE       |-> r.START_DATE,
     death_date       |-> r.death_date,
     GENDER           |-> r.GENDER,
     type             |-> r.type,
     age_at_diagnosis |-> r.age_at_diagnosis,
     status           |-> SurvivalStatus(r.death_date),
     time             |-> SurvivalTime(r.death_date, r.last_date_on_record, r.START_DATE)]

\* (variant: the rows are added to those of the previous run)
lung_cancer_survival_data_accumulated(t) ==
    LET ds == lung_cancer_patients_dataset(t)
    IN  (IF IsNull(data_pdf) THEN <<>> ELSE data_pdf[1])
            \o [k \in 1..Len(ds) |-> SurvivalRow(ds[k])]

\* CREATE OR REPLACE TEMP VIEW lung_cancer_survival_data
lung_cancer_survival_data(t) ==
    LET ds == lung_cancer_patients_dataset(t)
    IN  [k \in 1..Len(ds) |-> SurvivalRow(ds[k])]

-----------------------------------------------------------------------------
(* The csv files the notebook may find.  No query depends on the order of   *)
(* the rows of a file, so each multiset of rows is listed in one order.     *)

\* the non-decreasing index lists of length n over 1..d
NonDecreasing(n, d) ==
    {s \in [1..n -> 1..d] : \A i \in 1..(n - 1) : s[i] <= s[i + 1]}

\* the files of n rows drawn from the row list rows
FilesOf(n, rows) ==
    {[i \in 1..n |-> rows[s[i]]] : s \in NonDecreasing(n, Len(rows))}

PatientRow(id, birth, death) ==
    [Id |-> id, BIRTHDATE |-> birth, DEATHDATE |-> death,
     GENDER |-> IF id = <<2>> THEN "M" ELSE "F"]

ConditionRow(patient, start, code) ==
    [PATIENT |-> patient, START |-> start, CODE |-> code]

EncounterRow(patient, stop) == [PATIENT |-> patient, STOP |-> stop]

\* Family 1: up to MaxRows rows over two patients, one date per column
JoinPatientRows ==
    << PatientRow(<<1>>, <<1950, 1, 1>>, Null),
       PatientRow(<<2>>, <<1950, 1, 1>>, Null) >>

JoinConditionRows ==
    << ConditionRow(<<1>>, <<2021, 1, 1>>, <<SCLC_CODE>>),
       ConditionRow(<<1>>, <<2021, 1, 1>>, <<NSCLC_CODE>>),
       ConditionRow(<<1>>, <<2021, 1, 1>>, <<424132000>>),
       ConditionRow(<<2>>, <<2021, 1, 1>>, <<SCLC_CODE>>),
       ConditionRow(<<2>>, <<2021, 1, 1>>, <<NSCLC_CODE>>),
       ConditionRow(<<2>>, <<2021, 1, 1>>, <<424132000>>) >>

JoinEncounterRows ==
    << EncounterRow(<<1>>, Null),
       EncounterRow(<<1>>, <<2021, 7, 1>>),
       EncounterRow(<<2>>, Null),
       EncounterRow(<<2>>, <<2021, 7, 1>>) >>

JoinFiles ==
    UNION {UNION {UNION {
        {[patients |-> p, conditions |-> c, encounters |-> e] :
            p \in FilesOf(np, JoinPatientRows),
            c \in FilesOf(nc, JoinConditionRows),
            e \in FilesOf(ne, JoinEncounterRows)} :
        ne \in 0..(MaxRows - np - nc)} :
        nc \in 0..(MaxRows - np)} :
        np \in 0..MaxRows}

\* Family 2: one patient with one condition and two encounters, many dates
BirthCells == {<<1950, 1, 1>>, <<2020, 7, 7>>, Null}

DeathCells == {Null, <<2021, 4, 1>>, <<2019, 12, 31>>, <<2021, 2, 30>>}

StartCells == {<<2020, 1, 1>>, <<2021, 1, 1>>, <<2021, 9, 1>>, Null}

CodeCells == {<<SCLC_CODE>>, <<NSCLC_CODE>>, Null}

DateEncounterRows ==
    << EncounterRow(<<1>>, Null),
       EncounterRow(<<1>>, <<2021, 2, 30>>),
       EncounterRow(<<1>>, <<2021, 7, 1>>),
       EncounterRow(<<1>>, <<2021, 12, 1>>) >>

DateFiles ==
    {[patients   |-> <<PatientRow(<<1>>, b, d)>>,
      conditions |-> <<ConditionRow(<<1>>, s, c)>>,
      encounters |-> e] :
        b \in BirthCells, d \in DeathCells, s \in StartCells, c \in CodeCells,
        e \in FilesOf(2, DateEncounterRows)}

\* Family 3: one row in each file, its key present or NULL
KeyCells == {<<1>>, Null}

KeyFiles ==
    {[patients   |-> <<PatientRow(k1, <<1950, 1, 1>>, Null)>>,
      conditions |-> <<ConditionRow(k2, <<2021, 1, 1>>, <<SCLC_CODE>>)>>,
      encounters |-> <<EncounterRow(k3, <<2021, 7, 1>>)>>] :
        k1 \in KeyCells, k2 \in KeyCells, k3 \in KeyCells}

InputFiles == JoinFiles \cup DateFiles \cup KeyFiles

-----------------------------------------------------------------------------
(* The notebook, cell by cell *)

\* (variant: mode("append"))
SaveAsTableAppend(old, df) == old \o df

\* .write.format("delta").mode("overwrite").saveAsTable: the rows of the table
\* after the write of df over a table that held old
SaveAsTable(old, df) == df

\* a pool thread is free to take a queued call
WorkerFree == Cardinality({d \in DatasetNames : task[d] = "running"}) < max_workers

\* (variant: a call counts as finished once a thread has taken it)
FinishedOnceStarted(d) == task[d] \in {"running", "done"}

\* the future of the load of d has its result
Finished(d) == task[d] = "done"

Init ==
    /\ files \in InputFiles
    /\ db = FALSE
    /\ catalog = {}
    /\ tables = [d \in DatasetNames |-> <<>>]
    /\ task = [d \in DatasetNames |-> "new"]
    /\ drained = 0
    /\ table_counts = <<>>
    /\ views = {}
    /\ silver = Null
    /\ data_pdf = Null
    /\ kmf = Null
    /\ pc = "create_db"

\* create database if not exists ...; USE ...
CreateDatabase ==
    /\ pc = "create_db"
    /\ db' = TRUE
    /\ pc' = "map"
    /\ UNCHANGED <<files, catalog, tables, task, drained, table_counts, views,
                   silver, data_pdf, kmf>>

\* executor.map(load_folder_as_table, datasets): every call is submitted at once
ExecutorMap ==
    /\ pc = "map"
    /\ task' = [d \in DatasetNames |-> "queued"]
    /\ drained' = 0
    /\ pc' = "drain"
    /\ UNCHANGED <<files, db, catalog, tables, table_counts, views, silver,
                   data_pdf, kmf>>

\* a pool thread starts load_folder_as_table(d)
LoadStart(d) ==
    /\ task[d] = "queued"
    /\ WorkerFree
    /\ task' = [task EXCEPT ![d] = "running"]
    /\ UNCHANGED <<files, db, catalog, tables, drained, table_counts, views,
                   silver, data_pdf, kmf, pc>>

\* spark.read.csv(...).write...saveAsTable(d) commits
LoadSave(d) ==
    /\ task[d] = "running"
    /\ tables' = [tables EXCEPT ![d] = SaveAsTable(tables[d], files[d])]
    /\ catalog' = catalog \cup {d}
    /\ task' = [task EXCEPT ![d] = "done"]
    /\ UNCHANGED <<files, db, drained, table_counts, views, silver, data_pdf,
                   kmf, pc>>

\* deque(...) takes the next result of the map, in the order of datasets
Drain ==
    /\ pc = "drain"
    /\ drained < Len(datasets)
    /\ Finished(datasets[drained + 1])
    /\ drained' = drained + 1
    /\ UNCHANGED <<files, db, catalog, tables, task, table_counts, views,
                   silver, data_pdf, kmf, pc>>

\* leaving the with block: executor.shutdown(wait=True)
Shutdown ==
    /\ pc = "drain"
    /\ drained = Len(datasets)
    /\ \A d \in DatasetNames : Finished(d)
    /\ pc' = "count"
    /\ UNCHANGED <<files, db, catalog, tables, task, drained, table_counts,
                   views, silver, data_pdf, kmf>>

\* table_counts=[(tab,sql(f'select * from {tab}').count()) for tab in datasets]
CountRecords ==
    /\ pc = "count"
    /\ table_counts' = [i \in 1..Len(datasets) |-> <<datasets[i], Len(tables[datasets[i]])>>]
    /\ pc' = "cohort"
    /\ UNCHANGED <<files, db, catalog, tables, task, drained, views, silver,
                   data_pdf, kmf>>

\* a CREATE OR REPLACE TEMP VIEW cell
CreateView(at, name, next) ==
    /\ pc = at
    /\ views' = views \cup {name}
    /\ pc' = next
    /\ UNCHANGED <<files, db, catalog, tables, task, drained, table_counts,
                   silver, data_pdf, kmf>>

CreateCohortView == CreateView("cohort", "lung_cancer_cohort", "dataset")

CreatePatientsDatasetView ==
    CreateView("dataset", "lung_cancer_patients_dataset", "age_view")

CreateAgeView == CreateView("age_view", "age_at_diagnosis_view", "save")

\* sql("select * from lung_cancer_patients_dataset").write.mode("overWrite").save(...)
SaveSilver ==
    /\ pc = "save"
    /\ silver' = <<lung_cancer_patients_dataset(tables)>>
    /\ pc' = "survival"
    /\ UNCHANGED <<files, db, catalog, tables, task, drained, table_counts,
                   views, data_pdf, kmf>>

CreateSurvivalView == CreateView("survival", "lung_cancer_survival_data", "toPandas")

\* data_pdf = sql('select * from lung_cancer_survival_data').toPandas()
ToPandas ==
    /\ pc = "toPandas"
    /\ data_pdf' = <<lung_cancer_survival_data(tables)>>
    /\ pc' = "fit"
    /\ UNCHANGED <<files, db, catalog, tables, task, drained, table_counts,
                   views, silver, kmf>>

\* T = data_pdf['time']; E = data_pdf['status']; kmf.fit(T, E)
Fit ==
    /\ pc = "fit"
    /\ LET pdf == data_pdf[1]
       IN  kmf' = <<[T |-> [k \in 1..Len(pdf) |-> pdf[k].time],
                     E |-> [k \in 1..Len(pdf) |-> pdf[k].status]]>>
    /\ pc' = "done"
    /\ UNCHANGED <<files, db, catalog, tables, task, drained, table_counts,
                   views, silver, data_pdf>>

\* the notebook is run again in the same session, any number of times
Rerun ==
    /\ pc = "done"
    /\ task' = [d \in DatasetNames |-> "new"]
    /\ drained' = 0
    /\ pc' = "create_db"
    /\ UNCHANGED <<files, db, catalog, tables, table_counts, views, silver,
                   data_pdf, kmf>>

Next ==
    \/ CreateDatabase
    \/ ExecutorMap
    \/ \E d \in DatasetNames : LoadStart(d)
    \/ \E d \in DatasetNames : LoadSave(d)
    \/ Drain
    \/ Shutdown
    \/ CountRecords
    \/ CreateCohortView
    \/ CreatePatientsDatasetView
    \/ CreateAgeView
    \/ SaveSilver
    \/ CreateSurvivalView
    \/ ToPandas
    \/ Fit
    \/ Rerun

Spec == Init /\ [][Next]_vars

-----------------------------------------------------------------------------
(* Properties *)

\* how many rows of s satisfy F
Count(s, F(_)) == Cardinality({i \in 1..Len(s) : F(s[i])})

Rows(s) == {s[i] : i \in 1..Len(s)}

\* C1: once lung_cancer_cohort is defined, its rows are the condition records
\* whose code is 254632001 or 254637007, one row for each such record and no
\* other row, tagged SCLC for 254632001 and NSCLC for 254637007.
C1_CohortIsCodeFilter ==
    "lung_cancer_cohort" \in views =>
        LET c == tables["conditions"]
            v == lung_cancer_cohort(tables)
            Tagged(code, label) ==
                \A r \in Rows(c) :
                    Count(v, LAMBDA x : /\ x.type = label
                                        /\ x.PATIENT = r.PATIENT
                                        /\ x.START_DATE = to_date(r.START))
                      = Count(c, LAMBDA y : /\ y.CODE = <<code>>
                                            /\ y.PATIENT = r.PATIENT
                                            /\ to_date(y.START) = to_date(r.START))
        IN  /\ Len(v) = Count(c, LAMBDA y : y.CODE \in {<<254632001>>, <<254637007>>})
            /\ \A x \in Rows(v) : x.type \in {"SCLC", "NSCLC"}
            /\ Tagged(254632001, "SCLC")
            /\ Tagged(254637007, "NSCLC")

\* C1 witness: a conditions table with the same matching record twice and a
\* record of another code; the cohort holds the two copies and nothing else.
C1_Witness ==
    /\ "lung_cancer_cohort" \in views
    /\ LET c == tables["conditions"]
       IN  /\ Len(c) = 3
           /\ c[1] = c[2]
           /\ c[1].CODE = <<254637007>>
           /\ c[3].CODE = <<424132000>>
           /\ Len(lung_cancer_cohort(tables)) = 2

\* the cohort columns of a PatientDataset row
CohortPart(r) == [PATIENT |-> r.PATIENT, START_DATE |-> r.START_DATE, type |-> r.type]

\* the patient has a row in patients / in encounters
HasRecord(patient) ==
    ~IsNull(patient) /\ \E p \in Rows(tables["patients"]) : p.Id = patient

HasEncounter(patient) ==
    ~IsNull(patient) /\ \E e \in Rows(tables["encounters"]) : e.PATIENT = patient

\* C2 as stated: in the saved PatientDataset every cohort row of a patient with
\* a patient record and an encounter has exactly one row, every other cohort
\* row has none, and there are never more rows than cohort rows.
C2_OneRowPerCohortRow ==
    ~IsNull(silver) =>
        LET ds == silver[1]
            co == lung_cancer_cohort(tables)
        IN  /\ \A x \in Rows(co) :
                   Count(ds, LAMBDA r : CohortPart(r) = x)
                     = IF HasRecord(x.PATIENT) /\ HasEncounter(x.PATIENT)
                       THEN Count(co, LAMBDA y : y = x) ELSE 0
            /\ Len(ds) <= Len(co)

\* C2 amended: every cohort row has as many PatientDataset rows as patients has
\* records with its patient id when the patient has an encounter, and none
\* otherwise; every PatientDataset row comes from a cohort row; so the cohort
\* rows without a row are those of patients with no record or no encounter,
\* and a patient id that occurs once in patients gives one row per cohort row.
C2_RowsPerCohortRow ==
    ~IsNull(silver) =>
        LET ds == silver[1]
            co == lung_cancer_cohort(tables)
            Records(patient) ==
                IF IsNull(patient) THEN 0
                ELSE Count(tables["patients"], LAMBDA p : p.Id = patient)
        IN  /\ \A x \in Rows(co) :
                   Count(ds, LAMBDA r : CohortPart(r) = x)
                     = IF HasEncounter(x.PATIENT)
                       THEN Count(co, LAMBDA y : y = x) * Records(x.PATIENT) ELSE 0
            /\ \A r \in Rows(ds) : CohortPart(r) \in Rows(co) /\ r.Id = r.PATIENT

\* C2 witness: two patient records with one id, one matching condition and an
\* encounter of that patient: two PatientDataset rows from one cohort row.
C2_Witness ==
    /\ ~IsNull(silver)
    /\ Len(tables["patients"]) = 2
    /\ tables["patients"][1].Id = tables["patients"][2].Id
    /\ Len(lung_cancer_cohort(tables)) = 1
    /\ Len(tables["encounters"]) = 1
    /\ Len(silver[1]) = 2

\* C2 second witness: a cohort row of a patient with no record is dropped
\* beside one that is kept.
C2_WitnessDropped ==
    /\ ~IsNull(silver)
    /\ Len(lung_cancer_cohort(tables)) = 2
    /\ Len(silver[1]) = 1
    /\ \E x \in Rows(lung_cancer_cohort(tables)) :
           ~HasRecord(x.PATIENT)

\* the days from one DATE to another, written out: NULL when either is NULL
DaysFromTo(from, to) ==
    IF from = <<>> \/ to = <<>> THEN <<>> ELSE <<to[1] - from[1]>>

\* the cell a is a date on or before the date of cell b: year, month, day in turn
CellOnOrBefore(a, b) ==
    \/ a[1] < b[1]
    \/ a[1] = b[1] /\ a[2] < b[2]
    \/ a[1] = b[1] /\ a[2] = b[2] /\ a[3] <= b[3]

\* the input is one patient with one condition, with these cells, and the
\* latest of the patient's encounter stops is the cell stop
OnePatientInput(start, death, stop) ==
    /\ Len(files.patients) = 1
    /\ Len(files.conditions) = 1
    /\ files.patients[1].Id = files.conditions[1].PATIENT
    /\ files.conditions[1].START = start
    /\ files.patients[1].DEATHDATE = death
    /\ \E e \in Rows(files.encounters) : e.STOP = stop
    /\ \A e \in Rows(files.encounters) :
           /\ e.PATIENT = files.patients[1].Id
           /\ (e.STOP = <<>> \/ ~ValidCell(e.STOP) \/ CellOnOrBefore(e.STOP, stop))

\* C3: row k of the survival data comes from row k of the PatientDataset;
\* status is 1 iff death_date is not null; time is the days from diagnosis
\* to death when status is 1, whatever the last encounter, and the days from
\* diagnosis to the last encounter when status is 0, negative differences
\* included.  Diagnosis 2021-01-01, no death, last encounter 2021-07-01 gives
\* status 0 and time 181; diagnosis 2021-01-01, death 2021-04-01, last
\* encounter 2021-12-01 gives status 1 and time 90.
C3_StatusAndTime ==
    (~IsNull(data_pdf) /\ ~IsNull(silver)) =>
        LET ds == silver[1]
            sv == data_pdf[1]
        IN  /\ Len(sv) = Len(ds)
            /\ \A k \in 1..Len(sv) :
                   /\ sv[k].status \in {0, 1}
                   /\ sv[k].status = 1 <=> ds[k].death_date # <<>>
                   /\ sv[k].status = 1 =>
                          sv[k].time = DaysFromTo(ds[k].START_DATE, ds[k].death_date)
                   /\ sv[k].status = 0 =>
                          sv[k].time = DaysFromTo(ds[k].START_DATE, ds[k].last_date_on_record)
            /\ OnePatientInput(<<2021, 1, 1>>, Null, <<2021, 7, 1>>) =>
                   \A k \in 1..Len(sv) : sv[k].status = 0 /\ sv[k].time = <<181>>
            /\ OnePatientInput(<<2021, 1, 1>>, <<2021, 4, 1>>, <<2021, 12, 1>>) =>
                   \A k \in 1..Len(sv) : sv[k].status = 1 /\ sv[k].time = <<90>>

\* C3 witness: death 2021-04-01 with a later last encounter, 2021-12-01: the
\* one survival record has status 1 and time 90.
C3_Witness ==
    /\ ~IsNull(data_pdf)
    /\ OnePatientInput(<<2021, 1, 1>>, <<2021, 4, 1>>, <<2021, 12, 1>>)
    /\ Len(data_pdf[1]) = 1
    /\ data_pdf[1][1].status = 1
    /\ data_pdf[1][1].time = <<90>>
    /\ silver[1][1].last_date_on_record[1] > silver[1][1].death_date[1]

\* C3 witness of the censored case: no death, last encounter 2021-07-01.
C3_WitnessCensored ==
    /\ ~IsNull(data_pdf)
    /\ OnePatientInput(<<2021, 1, 1>>, Null, <<2021, 7, 1>>)
    /\ Len(data_pdf[1]) = 1
    /\ data_pdf[1][1].status = 0
    /\ data_pdf[1][1].time = <<181>>

\* the date a survival time runs to: death, or the last encounter when censored
EndDate(r) == IF r.death_date = <<>> THEN r.last_date_on_record ELSE r.death_date

\* C4 as stated: every survival record has status 0 or 1 and a time that is
\* not null and not negative, and the fitter gets durations and events of
\* equal length, the durations not negative.
C4_TimeNeverNegative ==
    /\ ~IsNull(data_pdf) =>
           \A r \in Rows(data_pdf[1]) :
               r.status \in {0, 1} /\ r.time # <<>> /\ r.time[1] >= 0
    /\ ~IsNull(kmf) =>
           /\ Len(kmf[1].T) = Len(kmf[1].E)
           /\ \A k \in 1..Len(kmf[1].T) : kmf[1].T[k] # <<>> /\ kmf[1].T[k][1] >= 0

\* C4 amended: every survival record has status 0 or 1; its time is null
\* exactly when the diagnosis date or the date it runs to is null, and is
\* otherwise an integer that is negative exactly when that date is before the
\* diagnosis date; the fitter gets the times and the statuses of the records,
\* in equal number.
C4_TimeSignFollowsDates ==
    /\ (~IsNull(data_pdf) /\ ~IsNull(silver)) =>
           /\ Len(data_pdf[1]) = Len(silver[1])
           /\ \A k \in 1..Len(data_pdf[1]) :
                  LET r == data_pdf[1][k]
                      d == silver[1][k]
                  IN  /\ r.status \in {0, 1}
                      /\ r.time = <<>> <=> (d.START_DATE = <<>> \/ EndDate(d) = <<>>)
                      /\ r.time # <<>> =>
                             /\ r.time[1] \in Int
                             /\ r.time[1] < 0 <=> EndDate(d)[1] < d.START_DATE[1]
    /\ (~IsNull(kmf) /\ ~IsNull(data_pdf)) =>
           /\ Len(kmf[1].T) = Len(kmf[1].E)
           /\ Len(kmf[1].T) = Len(data_pdf[1])
           /\ \A k \in 1..Len(data_pdf[1]) :
                  /\ kmf[1].T[k] = data_pdf[1][k].time
                  /\ kmf[1].E[k] = data_pdf[1][k].status

\* C4 witness: the fitter was handed a negative duration.
C4_Witness ==
    /\ ~IsNull(kmf)
    /\ \E k \in 1..Len(kmf[1].T) : kmf[1].T[k] # <<>> /\ kmf[1].T[k][1] < 0

\* C4 witness: the fitter was handed a null duration.
C4_WitnessNull ==
    /\ ~IsNull(kmf)
    /\ \E k \in 1..Len(kmf[1].T) : kmf[1].T[k] = <<>>

\* the STOP cells of the patient's encounters that hold a calendar date
StopDates(patient) ==
    {e.STOP : e \in {x \in Rows(tables["encounters"]) :
                        x.PATIENT = patient /\ x.STOP # <<>> /\ ValidCell(x.STOP)}}

\* C5 as stated: no row of the saved PatientDataset has a null
\* last_date_on_record.
C5_LastDateNeverNull ==
    ~IsNull(silver) => \A r \in Rows(silver[1]) : r.last_date_on_record # <<>>

\* C5 amended: the patient of every PatientDataset row has at least one
\* encounter row; last_date_on_record is null exactly when none of the
\* patient's encounters has a STOP that is a date, and is otherwise the
\* latest of those dates.
C5_LastDateIsLatestStop ==
    ~IsNull(silver) =>
        \A r \in Rows(silver[1]) :
            /\ HasEncounter(r.PATIENT)
            /\ r.last_date_on_record = <<>> <=> StopDates(r.PATIENT) = {}
            /\ r.last_date_on_record # <<>> =>
                   \E c \in StopDates(r.PATIENT) :
                       /\ \A o \in StopDates(r.PATIENT) : CellOnOrBefore(o, c)
                       /\ r.last_date_on_record = <<EpochDay(c[1], c[2], c[3])>>

\* C5 witness: a PatientDataset row whose patient's encounters all have an
\* empty or unreadable STOP, and whose last_date_on_record is null.
C5_Witness ==
    /\ ~IsNull(silver)
    /\ \E r \in Rows(silver[1]) :
           /\ r.last_date_on_record = <<>>
           /\ \E e \in Rows(tables["encounters"]) :
                  e.PATIENT = r.PATIENT /\ e.STOP = <<2021, 2, 30>>
           /\ \E e \in Rows(tables["encounters"]) :
                  e.PATIENT = r.PATIENT /\ e.STOP = <<>>

\* C5 witness of the other case: two encounters with different dates.
C5_WitnessLatest ==
    /\ ~IsNull(silver)
    /\ \E r \in Rows(silver[1]) :
           /\ StopDates(r.PATIENT) = {<<2021, 7, 1>>, <<2021, 12, 1>>}
           /\ r.last_date_on_record = <<18962>>

\* q is n / 356 rounded to the nearest integer
NearestTo356th(q, n) ==
    LET d == 356 * q - n
    IN  2 * (IF d < 0 THEN -d ELSE d) <= 356

\* the age of the rows is the days from birth to diagnosis over 356, rounded,
\* and is null when either date is null
AgeIsRoundedDaysOver356(ds) ==
    \A r \in Rows(ds) :
        /\ r.age_at_diagnosis = <<>> <=> (r.BIRTHDATE = <<>> \/ r.START_DATE = <<>>)
        /\ r.age_at_diagnosis # <<>> =>
               NearestTo356th(r.age_at_diagnosis[1], r.START_DATE[1] - r.BIRTHDATE[1])

\* the input has one patient born 1950-01-01 with a condition of 2020-01-01
Born1950Diagnosed2020 ==
    /\ Len(files.patients) = 1
    /\ Len(files.conditions) = 1
    /\ files.patients[1].BIRTHDATE = <<1950, 1, 1>>
    /\ files.conditions[1].START = <<2020, 1, 1>>

\* C6 as stated: age_at_diagnosis is the days from birth to diagnosis over
\* 356, rounded; birth 1950-01-01 and diagnosis 2020-01-01 are 25568 days
\* apart and give 72.
C6_AgeAndThe25568Days ==
    ~IsNull(silver) =>
        /\ AgeIsRoundedDaysOver356(silver[1])
        /\ Born1950Diagnosed2020 =>
               \A r \in Rows(silver[1]) :
                   /\ r.START_DATE[1] - r.BIRTHDATE[1] = 25568
                   /\ r.age_at_diagnosis = <<72>>

\* C6 amended: age_at_diagnosis is the days from birth to diagnosis over 356,
\* rounded; birth 1950-01-01 and diagnosis 2020-01-01 are 25567 days apart
\* and give round(25567/356) = 72.
C6_AgeAndThe25567Days ==
    ~IsNull(silver) =>
        /\ AgeIsRoundedDaysOver356(silver[1])
        /\ Born1950Diagnosed2020 =>
               \A r \in Rows(silver[1]) :
                   /\ r.START_DATE[1] - r.BIRTHDATE[1] = 25567
                   /\ r.age_at_diagnosis = <<72>>

\* C6 witness: the PatientDataset row of the patient born 1950-01-01 and
\* diagnosed 2020-01-01, with age 72.
C6_Witness ==
    /\ ~IsNull(silver)
    /\ Born1950Diagnosed2020
    /\ Len(silver[1]) = 1
    /\ silver[1][1].age_at_diagnosis = <<72>>

\* C6 witness of a tie: 178 days from birth to diagnosis, half of 356, give 1.
C6_WitnessHalf ==
    /\ ~IsNull(silver)
    /\ \E r \in Rows(silver[1]) :
           /\ r.BIRTHDATE # <<>> /\ r.START_DATE # <<>>
           /\ r.START_DATE[1] - r.BIRTHDATE[1] = 178
           /\ r.age_at_diagnosis = <<1>>

\* every call of the current map has finished
AllLoaded == \A d \in DatasetNames : task[d] = "done"

\* a step leaves the files alone and changes a table, or creates it, only by
\* finishing the load of that table, which leaves in it the rows of its file
StepLoadsOwnTable ==
    /\ files' = files
    /\ \A d \in DatasetNames :
           (tables'[d] # tables[d] \/ (d \in catalog' /\ d \notin catalog)) =>
               /\ task[d] = "running"
               /\ task'[d] = "done"
               /\ tables'[d] = files[d]
               /\ \A o \in DatasetNames \ {d} : tables'[o] = tables[o]

\* C7: whatever the interleaving of the three loads, and in every run, once
\* the three calls have finished every table exists and holds the rows of its
\* own csv file; a step changes a table only by finishing the load of that
\* table, which leaves in it the rows of its file, and no step changes a file.
C7_LoadsAreIndependent ==
    /\ [](AllLoaded =>
            (catalog = DatasetNames /\ \A d \in DatasetNames : tables[d] = files[d]))
    /\ [][StepLoadsOwnTable]_vars

\* C7 witness: in the second run the loads finished in an order other than
\* that of datasets (encounters first, patients still running), over tables
\* that already held rows.
C7_Witness ==
    /\ ~IsNull(kmf)
    /\ task["encounters"] = "done"
    /\ task["conditions"] = "queued"
    /\ task["patients"] = "running"
    /\ Len(tables["encounters"]) = 2
    /\ Len(tables["patients"]) = 1
    /\ Len(tables["conditions"]) = 1

\* the cells from the cohort view to the fit
StageCells == {"cohort", "dataset", "age_view", "save", "survival", "toPandas", "fit"}

\* a cell that materialises a dataset that exists already gets the same rows
StepRepeatsRecords ==
    /\ (pc = "toPandas" /\ ~IsNull(data_pdf)) => data_pdf' = data_pdf
    /\ (pc = "save" /\ ~IsNull(silver)) => silver' = silver
    /\ (pc = "fit" /\ ~IsNull(kmf)) => kmf' = kmf

\* a cell from the cohort view to the fit leaves tables, catalog and files alone
StepKeepsInputs ==
    pc \in StageCells => (tables' = tables /\ catalog' = catalog /\ files' = files)

C10_OneWayOrder ==
    /\ pc \notin {"create_db", "map", "drain"} =>
           /\ AllLoaded
           /\ drained = Len(datasets)
           /\ catalog = DatasetNames
           /\ \A d \in DatasetNames : tables[d] = files[d]
    /\ pc \notin {"create_db", "map", "drain", "count"} =>
           table_counts =
               [i \in 1..Len(datasets) |-> <<datasets[i], Len(files[datasets[i]])>>]
    /\ table_counts # <<>> => catalog = DatasetNames
    /\ "lung_cancer_cohort" \in views => catalog = DatasetNames
    /\ "lung_cancer_patients_dataset" \in views => "lung_cancer_cohort" \in views
    /\ ~IsNull(silver) => "lung_cancer_patients_dataset" \in views
    /\ "lung_cancer_survival_data" \in views => "lung_cancer_patients_dataset" \in views
    /\ ~IsNull(data_pdf) => "lung_cancer_survival_data" \in views
    /\ ~IsNull(kmf) => ~IsNull(data_pdf)
    /\ pc \in {"dataset", "age_view", "save"} => "lung_cancer_cohort" \in views
    /\ pc \in {"survival"} => ~IsNull(silver)
    /\ pc \in {"toPandas"} => "lung_cancer_survival_data" \in views
    /\ pc \in {"fit", "done"} => ~IsNull(data_pdf)
    /\ pc = "done" => ~IsNull(kmf)

\* C10 witness: the first run is at the count cell, every table loaded, no
\* view defined yet.
C10_Witness ==
    /\ IsNull(kmf)
    /\ pc = "count"
    /\ AllLoaded
    /\ views = {}
    /\ Len(tables["conditions"]) = 2
    /\ Len(tables["patients"]) = 1
    /\ Len(tables["encounters"]) = 1

====
